---- MODULE Spec2Model ----
(***************************************************************************)
(* The quiz backend (FastAPI handlers over one relational store) as a      *)
(* state machine.  The state is the content of the tables; every action is *)
(* one HTTP request handled from its first query to its response.          *)
(*                                                                         *)
(* Conventions                                                             *)
(*  - db is the committed content of the store: a table is a set of rows   *)
(*    (records); ids come from a per-table serial counter, never reused;   *)
(*  - a handler is an operator that reads db and gives its outcome: the    *)
(*    HTTP status and detail of the response, and the store it leaves;     *)
(*  - a Python Optional is a sequence of length 0 (None) or 1 (the value); *)
(*  - free text that the code lower-cases is a sequence of one-letter      *)
(*    strings, other strings are TLA+ strings;                             *)
(*  - a float is an exact fraction <<numerator, denominator>> in lowest    *)
(*    terms (rounding to the machine float is not modelled);               *)
(*  - columns the program writes but no handler reads back (created_at,    *)
(*    started_at, submitted_at, full_name, password_hash, option_text)     *)
(*    are left out of the rows;                                            *)
(*  - last is the response to the request handled last;                    *)
(*  - pending holds the requests that are being handled step by step, in   *)
(*    the specification of concurrent requests; elsewhere a request is one *)
(*    step and pending stays empty.                                        *)
(***************************************************************************)
EXTENDS Integers, Sequences, FiniteSets, TLC

VARIABLES db, now, last, pending

vars == <<db, now, last, pending>>

-----------------------------------------------------------------------------
(* Bounds of the model: the number of rows ever inserted in each table, and *)
(* the last reading of the clock                                            *)

MaxTopics == 2
MaxQuestions == 2
MaxOptions == 2
MaxTests == 1
MaxResponses == 2
MaxClock == 2
\* the tests and the responses of the specification of the analytics
MaxStarted == 3
MaxAnswers == 3
\* the tests and the responses of the specification of two users' analytics
MaxRivalTests == 2
MaxRivalAnswers == 2

-----------------------------------------------------------------------------
(* Python values *)

None == <<>>
Some(x) == <<x>>
Get(o) == o[1]

\* bool(o) of an Optional[int]: None and 0 are false
TruthyInt(o) == o # None /\ Get(o) # 0
\* bool(o) of an Optional[str] held as a TLA+ string: None and "" are false
TruthyStr(o) == o # None /\ Get(o) # ""
\* bool(o) of an Optional[str] held as a sequence of letters
TruthyText(o) == o # None /\ Get(o) # <<>>

\* the upper-case letters the model's texts use, with their lower-case forms
Letters == { <<"P", "p">>, <<"A", "a">>, <<"R", "r">>, <<"I", "i">>, <<"S", "s">> }

LowerChar(c) == IF \E p \in Letters : p[1] = c
                THEN (CHOOSE p \in Letters : p[1] = c)[2]
                ELSE c

\* (mutant) the text compared as it is, without lower()
Lower_Identity(s) == s

\* str.lower()
Lower(s) == [i \in 1..Len(s) |-> LowerChar(s[i])]

RECURSIVE GCD(_, _)
GCD(a, b) == IF b = 0 THEN a ELSE GCD(b, a % b)

\* the number n / d, d > 0, in lowest terms
Frac(n, d) == LET g == GCD(n, d) IN <<n \div g, d \div g>>

-----------------------------------------------------------------------------
(* The store and the outcomes of a request *)

EmptyStore ==
    [users |-> {}, topics |-> {}, questions |-> {}, options |-> {}, tests |-> {},
     responses |-> {},
     nextId |-> [users |-> 1, topics |-> 1, questions |-> 1, options |-> 1,
                 tests |-> 1, responses |-> 1]]

NoRequest == [op |-> "none", status |-> 0, detail |-> ""]

\* a worker that handles no request
Idle == [op |-> "none"]

\* the workers: two requests are handled at the same time
TwoRequests == {1, 2}

Init ==
    /\ db = EmptyStore
    /\ now = 1
    /\ last = NoRequest
    /\ pending = [i \in TwoRequests |-> Idle]

\* the handler returns after db.commit(): the store is as the handler left it
Committed(status, store) == [status |-> status, detail |-> "", db |-> store]

\* an HTTPException raised before db.commit(): get_db closes the session
\* without a commit, so nothing the handler did reaches the store
HTTPException(status, detail) == [status |-> status, detail |-> detail, db |-> db]

\* db.commit() fails on a constraint of the schema: the handler does not catch
\* the exception, the transaction is rolled back and the client gets a 500
IntegrityError == HTTPException(500, "Internal Server Error")

\* the body of the request fails its pydantic schema: FastAPI answers 422
\* and does not call the handler
RequestValidationError == HTTPException(422, "Unprocessable Entity")

\* db.add(row); db.commit(): the row gets the next id of its table
Insert(store, table, row) ==
    [store EXCEPT ![table] = @ \cup {[row EXCEPT !.id = store.nextId[table]]},
                  !.nextId[table] = @ + 1]

\* an assignment to the attributes of a loaded row; db.commit()
Update(store, table, old, new) == [store EXCEPT ![table] = (@ \ {old}) \cup {new}]

\* db.delete(row); db.commit()
Delete(store, table, row) == [store EXCEPT ![table] = @ \ {row}]

\* query(T).filter(T.id == id).first()
First(table, id) == CHOOSE r \in table : r.id = id
Exists(table, id) == \E r \in table : r.id = id

\* the callers get_current_user can return: the users that hold a token
Callers == {u.id : u \in db.users}

\* the store stays within the bounds of the model
WithinBounds(store) ==
    /\ store.nextId.topics <= MaxTopics + 1
    /\ store.nextId.questions <= MaxQuestions + 1
    /\ store.nextId.options <= MaxOptions + 1
    /\ store.nextId.tests <= MaxTests + 1
    /\ store.nextId.responses <= MaxResponses + 1

\* one request handled: the store is what the handler left, last its response
Handle(op, out) ==
    /\ WithinBounds(out.db)
    /\ db' = out.db
    /\ last' = [op |-> op, status |-> out.status, detail |-> out.detail]
    /\ UNCHANGED <<now, pending>>

\* the clock that datetime.now() reads
Tick ==
    /\ now < MaxClock
    /\ now' = now + 1
    /\ UNCHANGED <<db, last, pending>>

-----------------------------------------------------------------------------
(* api/user.py *)

register(username, phone) ==
    IF \E u \in db.users : u.username = username
    THEN HTTPException(400, "Username already registered")
    ELSE IF \E u \in db.users : u.phone = phone
    THEN HTTPException(400, "Phone number already registered")
    ELSE Committed(201, Insert(db, "users",
                   [id |-> 0, username |-> username, phone |-> phone]))

-----------------------------------------------------------------------------
(* api/topic.py *)

\* the existing-name test of create_topic
NameTaken(name) == \E t \in db.topics : t.name = name

\* models.Topic: name is a column with unique=True, so db.commit() fails
\* where it would leave two topics with one name
CommitTopics(status, store) ==
    IF \E a, b \in store.topics : a.name = b.name /\ a # b
    THEN IntegrityError
    ELSE Committed(status, store)

create_topic(u, name, description) ==
    IF NameTaken(name)
    THEN HTTPException(400, "Topic with this name already exists")
    ELSE CommitTopics(201, Insert(db, "topics",
                      [id |-> 0, name |-> name, description |-> description]))

\* (mutant) update_topic without its test of the other topics' names
NameConflict_Unchecked(topic, name) == FALSE

\* the name-conflict test of update_topic
NameConflict(topic, name) ==
    /\ TruthyStr(name)
    /\ Get(name) # topic.name
    /\ \E t \in db.topics : t.name = Get(name)

update_topic(u, topic_id, name, description) ==
    IF ~Exists(db.topics, topic_id)
    THEN HTTPException(404, "Topic not found")
    ELSE LET topic == First(db.topics, topic_id) IN
         IF NameConflict(topic, name)
         THEN HTTPException(400, "Topic with this name already exists")
         ELSE CommitTopics(200, Update(db, "topics", topic,
                  [topic EXCEPT
                     !.name = IF TruthyStr(name) THEN Get(name) ELSE @,
                     !.description = IF TruthyStr(description) THEN description ELSE @]))

\* the rows whose foreign key references topics.id
TopicReferenced(topic_id) ==
    \/ \E q \in db.questions : q.topic_id = topic_id
    \/ \E t \in db.tests : t.topic_id = topic_id

delete_topic(u, topic_id) ==
    IF ~Exists(db.topics, topic_id)
    THEN HTTPException(404, "Topic not found")
    ELSE IF TopicReferenced(topic_id)
    THEN IntegrityError
    ELSE Committed(204, Delete(db, "topics", First(db.topics, topic_id)))

-----------------------------------------------------------------------------
(* api/question.py *)

valid_types == {"multiple_choice", "true_false", "open_ended"}

\* schemas.QuestionBase: difficulty: int = Field(ge=1, le=5)
QuestionBase(req) == req.difficulty >= 1 /\ req.difficulty <= 5

\* (mutant) QuestionUpdate without the bounds of its difficulty field
QuestionUpdate_Unchecked(upd) == TRUE

\* schemas.QuestionUpdate: difficulty: Optional[int] = Field(None, ge=1, le=5)
QuestionUpdate(upd) ==
    upd.difficulty = None \/ (Get(upd.difficulty) >= 1 /\ Get(upd.difficulty) <= 5)

\* the correct_answer column of the row create_question builds
CreateAnswer(req) ==
    IF req.question_type = "open_ended" THEN req.correct_answer ELSE None

create_question(u, req) ==
    IF ~QuestionBase(req)
    THEN RequestValidationError
    ELSE IF ~Exists(db.topics, req.topic_id)
    THEN HTTPException(404, "Topic not found")
    ELSE IF req.question_type \notin valid_types
    THEN HTTPException(400, "Question type must be one of")
    ELSE IF req.difficulty < 1 \/ req.difficulty > 5
    THEN HTTPException(400, "Difficulty must be between 1 and 5")
    ELSE Committed(201, Insert(db, "questions",
             [id |-> 0,
              topic_id |-> req.topic_id,
              question_text |-> req.question_text,
              question_type |-> req.question_type,
              difficulty |-> req.difficulty,
              correct_answer |-> CreateAnswer(req)]))

create_option(u, question_id, is_correct) ==
    IF ~Exists(db.questions, question_id)
    THEN HTTPException(404, "Question not found")
    ELSE IF First(db.questions, question_id).question_type = "open_ended"
    THEN HTTPException(400, "Cannot add options to open-ended questions")
    ELSE Committed(200, Insert(db, "options",
             [id |-> 0, question_id |-> question_id, is_correct |-> is_correct]))

\* update_question assigns to the loaded row field by field, each assignment made
\* before the later fields are validated.  Each step takes and gives the row as it
\* stands in the session, with the status of the HTTPException raised so far
\* (err = 0: none).
SetTopic(st, upd) ==
    IF st.err # 0 \/ ~TruthyInt(upd.topic_id) THEN st
    ELSE IF ~Exists(db.topics, Get(upd.topic_id))
    THEN [st EXCEPT !.err = 404, !.detail = "Topic not found"]
    ELSE [st EXCEPT !.row.topic_id = Get(upd.topic_id)]

SetText(st, upd) ==
    IF st.err # 0 \/ ~TruthyStr(upd.question_text) THEN st
    ELSE [st EXCEPT !.row.question_text = Get(upd.question_text)]

SetType(st, upd) ==
    IF st.err # 0 \/ ~TruthyStr(upd.question_type) THEN st
    ELSE IF Get(upd.question_type) \notin valid_types
    THEN [st EXCEPT !.err = 400, !.detail = "Question type must be one of"]
    ELSE [st EXCEPT !.row.question_type = Get(upd.question_type)]

SetDifficulty(st, upd) ==
    IF st.err # 0 \/ ~TruthyInt(upd.difficulty) THEN st
    ELSE IF Get(upd.difficulty) < 1 \/ Get(upd.difficulty) > 5
    THEN [st EXCEPT !.err = 400, !.detail = "Difficulty must be between 1 and 5"]
    ELSE [st EXCEPT !.row.difficulty = Get(upd.difficulty)]

SetAnswer(st, upd) ==
    IF st.err # 0 \/ upd.correct_answer = None THEN st
    ELSE IF st.row.question_type = "open_ended"
    THEN [st EXCEPT !.row.correct_answer = upd.correct_answer]
    ELSE [st EXCEPT !.err = 400,
                    !.detail = "Correct answer can only be set for open-ended questions"]

\* the session's row and pending exception when update_question reaches db.commit()
UpdateSteps(question, upd) ==
    SetAnswer(SetDifficulty(SetType(SetText(SetTopic(
        [row |-> question, err |-> 0, detail |-> ""], upd), upd), upd), upd), upd)

update_question(u, question_id, upd) ==
    IF ~QuestionUpdate(upd)
    THEN RequestValidationError
    ELSE IF ~Exists(db.questions, question_id)
    THEN HTTPException(404, "Question not found")
    ELSE LET question == First(db.questions, question_id)
             st == UpdateSteps(question, upd)
         IN IF st.err # 0
            THEN HTTPException(st.err, st.detail)
            ELSE Committed(200, Update(db, "questions", question, st.row))

\* the rows whose foreign key references questions.id
QuestionReferenced(question_id) ==
    \/ \E o \in db.options : o.question_id = question_id
    \/ \E r \in db.responses : r.question_id = question_id

delete_question(u, question_id) ==
    IF ~Exists(db.questions, question_id)
    THEN HTTPException(404, "Question not found")
    ELSE IF QuestionReferenced(question_id)
    THEN IntegrityError
    ELSE Committed(204, Delete(db, "questions", First(db.questions, question_id)))

-----------------------------------------------------------------------------
(* api/test.py *)

\* the grading of an open-ended question
TextCorrect(question, req) ==
    /\ TruthyText(req.response_text)
    /\ TruthyText(question.correct_answer)
    /\ Lower(Get(req.response_text)) = Lower(Get(question.correct_answer))

\* (mutant) the option looked up by its id alone
OptionOf_AnyQuestion(question, option_id) ==
    {o \in db.options : o.id = option_id}

\* query(Option).filter(Option.id == option_id, Option.question_id == question.id)
OptionOf(question, option_id) ==
    {o \in db.options : o.id = option_id /\ o.question_id = question.id}

\* the HTTPException of the grading: the selected option is not one of the question
OptionMissing(question, req) ==
    /\ question.question_type # "open_ended"
    /\ TruthyInt(req.option_id)
    /\ OptionOf(question, Get(req.option_id)) = {}

\* is_correct as submit_response computes it
Grade(question, req) ==
    IF question.question_type = "open_ended"
    THEN TextCorrect(question, req)
    ELSE IF TruthyInt(req.option_id)
         THEN (CHOOSE o \in OptionOf(question, Get(req.option_id)) : TRUE).is_correct
         ELSE FALSE

\* (mutant) the handlers of api/test.py without their check of the owner
Owns_Anyone(u, test) == TRUE

\* the check of the handlers of api/test.py that the test belongs to the caller
Owns(u, test) == test.user_id = u

\* (mutant) submit_response without its check of completed_at
StillActive_Unchecked(test) == TRUE

\* the check of submit_response that the test is still active
StillActive(test) == test.completed_at = None

start_test(u, topic_id) ==
    IF ~Exists(db.topics, topic_id)
    THEN HTTPException(404, "Topic not found")
    ELSE Committed(201, Insert(db, "tests",
             [id |-> 0, user_id |-> u, topic_id |-> topic_id,
              completed_at |-> None, score |-> None]))

submit_response(u, test_id, req) ==
    IF ~Exists(db.tests, test_id)
    THEN HTTPException(404, "Test not found")
    ELSE IF ~Owns(u, First(db.tests, test_id))
    THEN HTTPException(403, "Not authorized to access this test")
    ELSE IF ~StillActive(First(db.tests, test_id))
    THEN HTTPException(400, "Test is already completed")
    ELSE IF ~Exists(db.questions, req.question_id)
    THEN HTTPException(404, "Question not found")
    ELSE LET question == First(db.questions, req.question_id) IN
         IF OptionMissing(question, req)
         THEN HTTPException(404, "Option not found or does not belong to this question")
         ELSE IF req.option_id # None /\ ~Exists(db.options, Get(req.option_id))
         THEN \* user_responses.option_id references options.id
              IntegrityError
         ELSE Committed(200, Insert(db, "responses",
                  [id |-> 0,
                   test_id |-> test_id,
                   question_id |-> req.question_id,
                   option_id |-> req.option_id,
                   response_text |-> req.response_text,
                   is_correct |-> Grade(question, req)]))

\* query(UserResponse).filter(UserResponse.test_id == test_id).all()
ResponsesOf(store, test_id) == {r \in store.responses : r.test_id = test_id}

\* (mutant) the score as a ratio, not multiplied by 100
Score_Ratio(rs) ==
    LET correct_count == Cardinality({r \in rs : r.is_correct})
        total_count == Cardinality(rs)
    IN IF total_count > 0 THEN Frac(correct_count, total_count) ELSE <<0, 1>>

\* score = (correct_count / total_count) * 100 if total_count > 0 else 0
Score(rs) ==
    LET correct_count == Cardinality({r \in rs : r.is_correct})
        total_count == Cardinality(rs)
    IN IF total_count > 0 THEN Frac(correct_count * 100, total_count) ELSE <<0, 1>>

\* (mutant) complete_test without its check of completed_at
NotCompleted_Unchecked(test) == TRUE

\* the check of complete_test that the test is not completed yet
NotCompleted(test) == test.completed_at = None

\* (mutant) complete_test without its check that there are responses
NoResponses_Unchecked(rs) == FALSE

\* the check of complete_test that the test has responses
NoResponses(rs) == rs = {}

\* schemas.TestDetailResponse: topic_name: str is a required field, read from the
\* attributes of the returned row; without it the response fails validation
TestDetailResponse(row) == "topic_name" \in DOMAIN row

\* the response FastAPI builds from the row a handler returns under
\* response_model=TestDetailResponse, after the handler's own work
Serialize(row, store) ==
    IF TestDetailResponse(row)
    THEN [status |-> 200, detail |-> "", db |-> store]
    ELSE [status |-> 500, detail |-> "Internal Server Error", db |-> store]

\* (mutant) the completion written with completed_at alone
Finalized_NoScore(test, score) == [test EXCEPT !.completed_at = Some(now)]

\* test.completed_at = datetime.now(); test.score = score
Finalized(test, score) ==
    [test EXCEPT !.completed_at = Some(now), !.score = Some(score)]

\* the row complete_test commits
Completed(test, rs) == Finalized(test, Score(rs))

complete_test(u, test_id) ==
    IF ~Exists(db.tests, test_id)
    THEN HTTPException(404, "Test not found")
    ELSE IF ~Owns(u, First(db.tests, test_id))
    THEN HTTPException(403, "Not authorized to access this test")
    ELSE IF ~NotCompleted(First(db.tests, test_id))
    THEN HTTPException(400, "Test is already completed")
    ELSE IF NoResponses(ResponsesOf(db, test_id))
    THEN HTTPException(400, "No responses found for this test")
    ELSE LET test == First(db.tests, test_id)
             done == Completed(test, ResponsesOf(db, test_id))
         IN Serialize(done, Update(db, "tests", test, done))

get_test(u, test_id) ==
    IF ~Exists(db.tests, test_id)
    THEN HTTPException(404, "Test not found")
    ELSE IF ~Owns(u, First(db.tests, test_id))
    THEN HTTPException(403, "Not authorized to access this test")
    ELSE Serialize(First(db.tests, test_id), db)

-----------------------------------------------------------------------------
(* The requests of the model.  Each operator is one endpoint, called by any  *)
(* user holding a token with any request drawn from the given sets.          *)

Paris == <<"P", "a", "r", "i", "s">>
paris == <<"p", "a", "r", "i", "s">>
Pariss == <<"P", "a", "r", "i", "s", "s">>

TopicIds == 1..MaxTopics
QuestionIds == 1..MaxQuestions
OptionIds == 1..MaxOptions
TestIds == 1..MaxTests

Register(regs) ==
    \E r \in regs : Handle("register", register(r[1], r[2]))

CreateTopic(names, descriptions) ==
    \E u \in Callers, name \in names, d \in descriptions :
        Handle("create_topic", create_topic(u, name, d))

UpdateTopic(ids, names, descriptions) ==
    \E u \in Callers, t \in ids, name \in names, d \in descriptions :
        Handle("update_topic", update_topic(u, t, name, d))

DeleteTopic(ids) ==
    \E u \in Callers, t \in ids : Handle("delete_topic", delete_topic(u, t))

CreateQuestion(reqs) ==
    \E u \in Callers, req \in reqs : Handle("create_question", create_question(u, req))

CreateOption(ids) ==
    \E u \in Callers, q \in ids, b \in BOOLEAN :
        Handle("create_option", create_option(u, q, b))

UpdateQuestion(ids, upds) ==
    \E u \in Callers, q \in ids, upd \in upds :
        Handle("update_question", update_question(u, q, upd))

DeleteQuestion(ids) ==
    \E u \in Callers, q \in ids : Handle("delete_question", delete_question(u, q))

StartTest(ids) ==
    \E u \in Callers, t \in ids : Handle("start_test", start_test(u, t))

SubmitResponse(ids, reqs) ==
    \E u \in Callers, t \in ids, req \in reqs :
        Handle("submit_response", submit_response(u, t, req))

CompleteTest(ids) ==
    \E u \in Callers, t \in ids : Handle("complete_test", complete_test(u, t))

GetTest(ids) ==
    \E u \in Callers, t \in ids : Handle("get_test", get_test(u, t))

-----------------------------------------------------------------------------
(* SpecTests: the life of a test.  Two users, one topic, open-ended          *)
(* questions answered "Paris"; a response is right ("paris") or wrong (no    *)
(* text).                                                                    *)

TwoUsers == {<<"ann", "555-1">>, <<"bob", "555-2">>}

OpenQuestion ==
    [topic_id : {1}, question_text : {"capital"}, question_type : {"open_ended"},
     difficulty : {1}, correct_answer : {Some(Paris)}]

RightOrWrong ==
    [question_id : {1}, option_id : {None}, response_text : {None, Some(paris)}]

NextTests ==
    \/ Tick
    \/ Register(TwoUsers)
    \/ CreateTopic({"math"}, {None})
    \/ db.questions = {} /\ CreateQuestion(OpenQuestion)
    \/ StartTest({1})
    \/ SubmitResponse(TestIds, RightOrWrong)
    \/ CompleteTest(TestIds)
    \/ GetTest(TestIds)

SpecTests == Init /\ [][NextTests]_vars

-----------------------------------------------------------------------------
(* SpecGrading: the grading of one response.  One user and one test; the     *)
(* questions are multiple-choice or open-ended, the open-ended ones with no  *)
(* answer, an empty answer or "Paris"; the options are right or wrong.       *)

OneUser == {<<"ann", "555-1">>}

GradedQuestions ==
    [topic_id : {1}, question_text : {"capital"}, question_type : {"open_ended"},
     difficulty : {1}, correct_answer : {None, Some(<<>>), Some(Paris)}]
    \cup [topic_id : {1}, question_text : {"capital"},
          question_type : {"multiple_choice"}, difficulty : {1},
          correct_answer : {None}]

GradedResponses ==
    [question_id : QuestionIds, option_id : {None} \cup {Some(o) : o \in OptionIds},
     response_text : {None, Some(paris)}]

NextGrading ==
    \/ Register(OneUser)
    \/ CreateTopic({"math"}, {None})
    \/ CreateQuestion(GradedQuestions)
    \/ CreateOption({1, 2})
    \/ StartTest({1})
    \/ db.responses = {} /\ SubmitResponse(TestIds, GradedResponses)

SpecGrading == Init /\ [][NextGrading]_vars

-----------------------------------------------------------------------------
(* SpecTopics: the topics.  One user creates topics named "math" or with an *)
(* empty name, renames them (to "math", to "art", to the empty name or with  *)
(* no name in the request) and deletes them.                                 *)

Renames == {None, Some(""), Some("math"), Some("art")}

NextTopics ==
    \/ Register(OneUser)
    \/ CreateTopic({"math", ""}, {None})
    \/ UpdateTopic(TopicIds, Renames, {None, Some("d")})
    \/ DeleteTopic(TopicIds)

SpecTopics == Init /\ [][NextTopics]_vars

-----------------------------------------------------------------------------
(* SpecQuestions: the questions of one topic and their options.              *)

SomeQuestions ==
    [topic_id : {1}, question_text : {"capital"},
     question_type : {"multiple_choice", "open_ended"}, difficulty : {1},
     correct_answer : {None, Some(Paris)}]

TypeAndAnswer ==
    [topic_id : {None}, question_text : {None},
     question_type : {None, Some("true_false"), Some("open_ended")},
     difficulty : {None}, correct_answer : {None, Some(paris)}]

NextQuestions ==
    \/ Register(OneUser)
    \/ CreateTopic({"math"}, {None})
    \/ CreateQuestion(SomeQuestions)
    \/ UpdateQuestion(QuestionIds, TypeAndAnswer)
    \/ DeleteQuestion(QuestionIds)
    \/ CreateOption(QuestionIds)

SpecQuestions == Init /\ [][NextQuestions]_vars

-----------------------------------------------------------------------------
(* Spec: every endpoint that writes, and get_test.  One user, one topic      *)
(* that is renamed and deleted, open-ended questions of which the first is   *)
(* updated (to true_false, which lets it take options).                      *)

WholeUpdates ==
    [topic_id : {Some(1)}, question_text : {Some("city")},
     question_type : {Some("true_false")}, difficulty : {Some(3)},
     correct_answer : {None, Some(paris)}]

Next ==
    \/ Tick
    \/ Register(OneUser)
    \/ CreateTopic({"math"}, {None})
    \/ UpdateTopic({1}, {Some("art")}, {None})
    \/ DeleteTopic({1})
    \/ CreateQuestion(OpenQuestion)
    \/ CreateOption({1})
    \/ UpdateQuestion({1}, WholeUpdates)
    \/ DeleteQuestion(QuestionIds)
    \/ StartTest({1})
    \/ SubmitResponse(TestIds, RightOrWrong)
    \/ CompleteTest(TestIds)
    \/ GetTest(TestIds)

Spec == Init /\ [][Next]_vars

-----------------------------------------------------------------------------
(* The requests the claims range over: at every reachable state a claim     *)
(* about an endpoint is checked on the outcome of every request below, those *)
(* that the endpoint rejects included.                                       *)

AnyTopicId == 0..(MaxTopics + 1)
AnyQuestionId == 0..(MaxQuestions + 1)
AnyOptionId == {None} \cup {Some(o) : o \in 0..(MaxOptions + 1)}
AnyText == {None, Some(<<>>), Some(Paris), Some(paris), Some(Pariss)}

\* requests that reach past the first checks of submit_response
SomeResponses ==
    [question_id : {1, 2}, option_id : {None, Some(1)}, response_text : {None, Some(paris)}]

SomeUpdates ==
    [topic_id : {None}, question_text : {None},
     question_type : {Some("true_false")}, difficulty : {None},
     correct_answer : {None, Some(paris)}]

\* P holds of the outcome of a request of caller u to every endpoint, on the
\* first topic and question and on every test
EveryOutcome(u, P(_)) ==
    /\ P(create_topic(u, "art", None))
    /\ P(update_topic(u, 1, Some("art"), None))
    /\ P(delete_topic(u, 1))
    /\ \A req \in OpenQuestion : P(create_question(u, req))
    /\ P(create_option(u, 1, TRUE))
    /\ \A upd \in SomeUpdates : P(update_question(u, 1, upd))
    /\ P(delete_question(u, 1))
    /\ P(start_test(u, 1))
    /\ \A t \in TestIds, req \in RightOrWrong : P(submit_response(u, t, req))
    /\ \A t \in TestIds : P(complete_test(u, t))
    /\ \A t \in TestIds : P(get_test(u, t))

Rejected(out) == out.status >= 400 /\ out.db = db

IsCompleted(test) == test.completed_at # None

-----------------------------------------------------------------------------
(* C1: a submit_response on a test whose completion is committed is         *)
(* rejected (400 for the owner, 403 for anyone else) and stores nothing, and *)
(* in every step the responses of a completed test stay what they were.      *)

C1_Rejects ==
    \A t \in db.tests : IsCompleted(t) =>
        \A u \in Callers, req \in SomeResponses :
            LET out == submit_response(u, t.id, req) IN
            /\ Rejected(out)
            /\ u = t.user_id => out.status = 400 /\ out.detail = "Test is already completed"

C1_Frozen ==
    \A t \in db.tests : IsCompleted(t) =>
        ResponsesOf(db', t.id) = ResponsesOf(db, t.id)

\* C1: a completed test rejects every submit_response, store unchanged, and its
\* set of responses is the same after every step
C1_CompletedTestTakesNoResponse == []C1_Rejects /\ [][C1_Frozen]_vars

\* a submit_response was just refused on a completed test that has responses
C1_Witness ==
    /\ last.op = "submit_response"
    /\ last.status = 400
    /\ last.detail = "Test is already completed"
    /\ \E t \in db.tests : IsCompleted(t) /\ ResponsesOf(db, t.id) # {}

-----------------------------------------------------------------------------
(* C2: completion is one-way.  A completed test keeps its row (completed_at  *)
(* and score) in every step and under the outcome of every request of every  *)
(* caller, and a further complete_test on it is rejected with the store      *)
(* unchanged.                                                                *)

C2_Refused ==
    \A t \in db.tests : IsCompleted(t) =>
        \A u \in Callers :
            /\ Rejected(complete_test(u, t.id))
            /\ u = t.user_id => complete_test(u, t.id).detail = "Test is already completed"
            /\ LET Keeps(out) == t \in out.db.tests IN EveryOutcome(u, Keeps)

C2_Kept == \A t \in db.tests : IsCompleted(t) => t \in db'.tests

\* C2: a completed test refuses complete_test and keeps completed_at and score
\* in every step
C2_CompletionIsOneWay == []C2_Refused /\ [][C2_Kept]_vars

\* a second complete_test was just refused, later than the completion it found
C2_Witness ==
    /\ last.op = "complete_test"
    /\ last.status = 400
    /\ last.detail = "Test is already completed"
    /\ \E t \in db.tests : IsCompleted(t) /\ Get(t.completed_at) < now

-----------------------------------------------------------------------------
(* C3: complete_test on a test with no response is rejected and the test     *)
(* stays in progress: a test without responses has neither completed_at nor  *)
(* score.                                                                    *)

C3_NoResponsesNoCompletion ==
    \A t \in db.tests : ResponsesOf(db, t.id) = {} =>
        /\ t.completed_at = None
        /\ t.score = None
        /\ \A u \in Callers :
              LET out == complete_test(u, t.id) IN
              /\ Rejected(out)
              /\ u = t.user_id =>
                    out.status = 400 /\ out.detail = "No responses found for this test"

\* complete_test was just refused on a test without responses, still in progress
C3_Witness ==
    /\ last.op = "complete_test"
    /\ last.detail = "No responses found for this test"
    /\ \E t \in db.tests : ResponsesOf(db, t.id) = {} /\ t.completed_at = None

-----------------------------------------------------------------------------
(* C4: complete_test by the owner of an in-progress test with n >= 1         *)
(* responses, k of them correct, leaves the test with completed_at set and   *)
(* score = 100 * k / n; every stored score is that of the test's responses   *)
(* and lies in [0, 100].                                                     *)

Correct(rs) == {r \in rs : r.is_correct}

\* the fraction s is the number 100 * k / n
IsPercentage(s, k, n) == s[2] > 0 /\ s[1] * n = 100 * k * s[2]

InRange(s) == s[2] > 0 /\ 0 <= s[1] /\ s[1] <= 100 * s[2]

C4_ScoreIsPercentageCorrect ==
    \A t \in db.tests :
        LET rs == ResponsesOf(db, t.id)
            k == Cardinality(Correct(rs))
            n == Cardinality(rs)
        IN /\ (~IsCompleted(t) /\ n >= 1) =>
                 LET out == complete_test(t.user_id, t.id)
                     done == First(out.db.tests, t.id)
                 IN /\ done.completed_at = Some(now)
                    /\ done.score # None
                    /\ IsPercentage(Get(done.score), k, n)
                    /\ out.db = [db EXCEPT !.tests = (@ \ {t}) \cup {done}]
           /\ IsCompleted(t) =>
                 /\ t.score # None
                 /\ IsPercentage(Get(t.score), k, n)
                 /\ InRange(Get(t.score))

\* complete_test just scored a test with two responses, one of them correct
C4_Witness ==
    /\ last.op = "complete_test"
    /\ \E t \in db.tests :
          /\ IsCompleted(t)
          /\ t.score = Some(<<50, 1>>)
          /\ Cardinality(ResponsesOf(db, t.id)) = 2
          /\ Cardinality(Correct(ResponsesOf(db, t.id))) = 1

-----------------------------------------------------------------------------
(* C7: submit_response, complete_test and get_test by a caller who does not  *)
(* own the test are answered 403 with the store unchanged, and no request of *)
(* such a caller, to any endpoint, changes the test's row or its responses.  *)

C7_OnlyTheOwner ==
    \A t \in db.tests : \A u \in Callers \ {t.user_id} :
        /\ \A req \in SomeResponses :
              LET out == submit_response(u, t.id, req) IN
              Rejected(out) /\ out.status = 403
        /\ Rejected(complete_test(u, t.id)) /\ complete_test(u, t.id).status = 403
        /\ Rejected(get_test(u, t.id)) /\ get_test(u, t.id).status = 403
        /\ LET Untouched(out) ==
                  /\ t \in out.db.tests
                  /\ ResponsesOf(out.db, t.id) = ResponsesOf(db, t.id)
           IN EveryOutcome(u, Untouched)

\* a user who does not own it was just refused the completion of a test that
\* is in progress and has responses
C7_Witness ==
    /\ last.op = "complete_test"
    /\ last.status = 403
    /\ \E t \in db.tests : ~IsCompleted(t) /\ ResponsesOf(db, t.id) # {}
    /\ Cardinality(db.users) = 2

-----------------------------------------------------------------------------
(* C5: for a question that is not open-ended, a submit_response by the owner *)
(* of an in-progress test stores is_correct = the flag of the selected       *)
(* option when that option is one of the question; it is rejected and stores *)
(* nothing when the option does not exist or is an option of another         *)
(* question; with no option id it stores is_correct = FALSE.                 *)

\* the request was answered 200 and added one response, graded `flag`
Stored(out, test, req, flag) ==
    /\ out.status = 200
    /\ \E r \in out.db.responses :
          /\ r \notin db.responses
          /\ out.db = [db EXCEPT !.responses = @ \cup {r},
                                 !.nextId.responses = @ + 1]
          /\ r.test_id = test.id
          /\ r.question_id = req.question_id
          /\ r.option_id = req.option_id
          /\ r.response_text = req.response_text
          /\ r.is_correct = flag

C5_ChoiceGrading ==
    \A t \in db.tests, q \in db.questions :
        (~IsCompleted(t) /\ q.question_type # "open_ended") =>
            \A o \in AnyOptionId, text \in {None, Some(paris)} :
                LET req == [question_id |-> q.id, option_id |-> o, response_text |-> text]
                    out == submit_response(t.user_id, t.id, req)
                    own == IF o = None THEN {}
                           ELSE {x \in db.options : x.id = Get(o) /\ x.question_id = q.id}
                IN IF o = None THEN Stored(out, t, req, FALSE)
                   ELSE IF own # {} THEN \A x \in own : Stored(out, t, req, x.is_correct)
                   ELSE Rejected(out)

\* an option of another question was just refused: every option id of the
\* requests exists, and the request named one of them
C5_Witness ==
    /\ last.op = "submit_response"
    /\ last.status = 404
    /\ last.detail = "Option not found or does not belong to this question"
    /\ \A o \in OptionIds : Exists(db.options, o)

-----------------------------------------------------------------------------
(* C6: for an open-ended question, submit_response stores is_correct = TRUE  *)
(* exactly when the submitted text and the stored answer are equal up to     *)
(* letter case and both are there.                                           *)

\* s and t are the same text up to the case of their letters
SameIgnoringCase(s, t) ==
    /\ Len(s) = Len(t)
    /\ \A i \in 1..Len(s) :
          s[i] = t[i] \/ <<s[i], t[i]>> \in Letters \/ <<t[i], s[i]>> \in Letters

\* every text submitted to every open-ended question is graded Right(text, answer)
OpenGrading(Right(_, _)) ==
    \A t \in db.tests, q \in db.questions :
        (~IsCompleted(t) /\ q.question_type = "open_ended") =>
            \A text \in AnyText :
                LET req == [question_id |-> q.id, option_id |-> None,
                            response_text |-> text]
                IN Stored(submit_response(t.user_id, t.id, req), t, req,
                          Right(text, q.correct_answer))

\* as claimed: both present (not None) and equal ignoring case
PresentAndSame(text, answer) ==
    text # None /\ answer # None /\ SameIgnoringCase(Get(text), Get(answer))

\* as amended: both present and not empty, and equal ignoring case
NonEmptyAndSame(text, answer) ==
    /\ text # None /\ Get(text) # <<>>
    /\ answer # None /\ Get(answer) # <<>>
    /\ SameIgnoringCase(Get(text), Get(answer))

\* C6 as claimed: is_correct is TRUE exactly when text and answer are not None
\* and equal ignoring case
C6_AsClaimed == OpenGrading(PresentAndSame)

\* C6 as amended: is_correct is TRUE exactly when text and answer are present,
\* not empty, and equal ignoring case
C6_OpenGrading == OpenGrading(NonEmptyAndSame)

\* "paris" was just submitted to a question answered "Paris" and stored as correct
C6_Witness ==
    /\ last.op = "submit_response"
    /\ last.status = 200
    /\ \E r \in db.responses, q \in db.questions :
          /\ r.question_id = q.id
          /\ q.question_type = "open_ended"
          /\ q.correct_answer = Some(Paris)
          /\ r.response_text = Some(paris)
          /\ r.is_correct

-----------------------------------------------------------------------------
(* C8: every question whose type is not open_ended carries no correct-answer *)
(* string, also after update_question changed the type of an open-ended      *)
(* question.                                                                 *)

C8_NoAnswerUnlessOpenEnded ==
    \A q \in db.questions : q.question_type # "open_ended" => q.correct_answer = None

-----------------------------------------------------------------------------
(* C9: a request that is answered with an error leaves the store as it was:  *)
(* no request reports an error after its commit, none leaves a partial write *)

C9_AllOrNothing == [][last'.status >= 400 => db' = db]_vars

-----------------------------------------------------------------------------
(* C10: no two topics have the same name; a create with a name in use is     *)
(* rejected and changes nothing, and so is a rename to a name that another   *)
(* topic holds; a rename of a topic to its own name is accepted.             *)

AnyName == {"", "math", "art"}

C10_Unique == \A a, b \in db.topics : a.name = b.name => a = b

C10_CreateRefused ==
    \A u \in Callers, name \in AnyName : NameTaken(name) =>
        LET out == create_topic(u, name, None) IN Rejected(out) /\ out.status = 400

\* a rename to the name of another topic, for the names that satisfy Covered
C10_RenameRefused(Covered(_)) ==
    \A u \in Callers, t \in db.topics : \A other \in db.topics \ {t} : Covered(other.name) =>
        LET out == update_topic(u, t.id, Some(other.name), None)
        IN Rejected(out) /\ out.status = 400

C10_OwnNameAccepted ==
    \A u \in Callers, t \in db.topics :
        LET out == update_topic(u, t.id, Some(t.name), None)
        IN out.status = 200 /\ out.db = db

EveryName(name) == TRUE
NotEmpty(name) == name # ""

\* C10 as claimed: names are unique, a create with a taken name and a rename to
\* any name held by another topic are rejected, a rename to the own name accepted
C10_AsClaimed ==
    C10_Unique /\ C10_CreateRefused /\ C10_RenameRefused(EveryName) /\ C10_OwnNameAccepted

\* C10 as amended: the same, the rejected renames being those to a name that is
\* not empty and held by another topic
C10_UniqueTopicNames ==
    C10_Unique /\ C10_CreateRefused /\ C10_RenameRefused(NotEmpty) /\ C10_OwnNameAccepted

\* a rename was just refused, two topics being stored
C10_Witness ==
    /\ last.op = "update_topic"
    /\ last.status = 400
    /\ last.detail = "Topic with this name already exists"
    /\ Cardinality(db.topics) = 2

-----------------------------------------------------------------------------
(* SpecDifficulty: the difficulty of questions.  One user and one topic;     *)
(* open-ended questions are created, updated and deleted with difficulties   *)
(* inside and outside 1..5, an update may also carry none.                   *)

RatedQuestions ==
    [topic_id : {1}, question_text : {"capital"}, question_type : {"open_ended"},
     difficulty : {-1, 0, 1, 5, 6}, correct_answer : {None}]

Ratings ==
    [topic_id : {None}, question_text : {None, Some("city")}, question_type : {None},
     difficulty : {None, Some(-1), Some(0), Some(3), Some(6)}, correct_answer : {None}]

NextDifficulty ==
    \/ Register(OneUser)
    \/ CreateTopic({"math"}, {None})
    \/ CreateQuestion(RatedQuestions)
    \/ UpdateQuestion(QuestionIds, Ratings)
    \/ DeleteQuestion(QuestionIds)

SpecDifficulty == Init /\ [][NextDifficulty]_vars

-----------------------------------------------------------------------------
(* C11: every stored question's difficulty is in 1..5; a create_question or  *)
(* an update_question that carries a difficulty outside 1..5 is rejected and *)
(* leaves the store, the stored question with it, unchanged.                 *)

OutOfRange(d) == d < 1 \/ d > 5

C11_DifficultyInRange ==
    /\ \A q \in db.questions : q.difficulty \in 1..5
    /\ \A u \in Callers, req \in RatedQuestions :
          OutOfRange(req.difficulty) => Rejected(create_question(u, req))
    /\ \A u \in Callers, q \in db.questions, upd \in Ratings :
          (upd.difficulty # None /\ OutOfRange(Get(upd.difficulty))) =>
              Rejected(update_question(u, q.id, upd))

\* an update carrying a difficulty outside 1..5 was just refused, the stored
\* questions being rated 3 and 5
C11_Witness ==
    /\ last.op = "update_question"
    /\ last.status = 422
    /\ {q.difficulty : q \in db.questions} = {3, 5}

-----------------------------------------------------------------------------
(* Numbers.  A float is held as the exact fraction <<n, d>>, d > 0, in       *)
(* lowest terms.                                                             *)

Whole(n) == <<n, 1>>

Leq(a, b) == a[1] * b[2] <= b[1] * a[2]

Plus(a, b) == Frac(a[1] * b[2] + b[1] * a[2], a[2] * b[2])

\* a / n and a * n for an integer n > 0
Over(a, n) == Frac(a[1], a[2] * n)
Times(a, n) == Frac(a[1] * n, a[2])

\* int(a) for a >= 0
Truncate(a) == a[1] \div a[2]

\* round(a, 2) for a >= 0: the nearest multiple of 1/100, a tie to the even one
Round2(a) ==
    LET h == a[1] * 100
        q == h \div a[2]
        r == h % a[2]
        up == 2 * r > a[2] \/ (2 * r = a[2] /\ q % 2 = 1)
    IN Frac(IF up THEN q + 1 ELSE q, 100)

\* sum(...), max(...), min(...) over the fractions of a non-empty set
RECURSIVE Sum(_)
Sum(xs) ==
    IF xs = {} THEN Whole(0)
    ELSE LET x == CHOOSE x \in xs : TRUE IN Plus(x[2], Sum(xs \ {x}))

Max(xs) == CHOOSE x \in xs : \A y \in xs : Leq(y, x)
Min(xs) == CHOOSE x \in xs : \A y \in xs : Leq(x, y)

-----------------------------------------------------------------------------
(* api/analytics.py.  The three endpoints read the store and write nothing;  *)
(* each is an operator of the store it reads, the caller and its query, and  *)
(* gives its response with the body it returns.                              *)

Returned(store, body) == [status |-> 200, detail |-> "", db |-> store, body |-> body]

Failed(store) ==
    [status |-> 500, detail |-> "Internal Server Error", db |-> store, body |-> None]

Periods == {"week", "month", "year", "all"}

\* timedelta(days=...) of the period
Days(period) ==
    CASE period = "week" -> 7
      [] period = "month" -> 30
      [] period = "year" -> 365

\* query(Test).filter(Test.user_id == current_user["id"], Test.completed_at != None)
CompletedBy(store, u) ==
    {t \in store.tests : t.user_id = u /\ t.completed_at # None}

\* (mutant) the base query without the filter of the period
InPeriod_AllTime(store, u, period) == CompletedBy(store, u)

\* the base query filtered to the period
InPeriod(store, u, period) ==
    IF period = "all" THEN CompletedBy(store, u)
    ELSE {t \in CompletedBy(store, u) : Get(t.completed_at) >= now - Days(period)}

\* (mutant) the count of started tests filtered like the completed ones
StartedBy_Completed(store, u) == Cardinality(CompletedBy(store, u))

\* all_tests_count: query(func.count(Test.id)).filter(Test.user_id == ...).scalar()
StartedBy(store, u) == Cardinality({t \in store.tests : t.user_id = u})

\* the <<id, score>> pairs of tests, one for each test
Scores(tests) == {<<t.id, Get(t.score)>> : t \in tests}

\* query.order_by(Test.completed_at.desc()).limit(5).all(): the lists the query
\* can give, tests completed at the same time coming in any order
Recent(tests) ==
    LET n == IF Cardinality(tests) < 5 THEN Cardinality(tests) ELSE 5
        desc(l) == \A i \in 1..(n - 1) :
                       Get(l[i].completed_at) >= Get(l[i + 1].completed_at)
        first(l) == \A t \in tests : (\A i \in 1..n : l[i] # t) =>
                       \A i \in 1..n : Get(l[i].completed_at) >= Get(t.completed_at)
        once(l) == \A i, j \in 1..n : l[i] = l[j] => i = j
    IN {[i \in 1..n |-> [date |-> Get(l[i].completed_at), score |-> Get(l[i].score)]] :
            l \in {l \in [1..n -> tests] : once(l) /\ desc(l) /\ first(l)}}

NoTests ==
    [total_tests |-> 0, average_score |-> Whole(0), best_score |-> Whole(0),
     worst_score |-> Whole(0), recent_scores |-> {<<>>}, completion_rate |-> Whole(0)]

get_user_performance(store, u, period) ==
    LET tests == InPeriod(store, u, period)
        total_tests == Cardinality(tests)
        all_tests_count == StartedBy(store, u)
    IN IF tests = {} THEN Returned(store, NoTests)
       ELSE IF \E t \in tests : t.score = None
       THEN \* sum() over a None
            Failed(store)
       ELSE Returned(store,
            [total_tests |-> total_tests,
             average_score |-> Round2(Over(Sum(Scores(tests)), total_tests)),
             best_score |-> Max({x[2] : x \in Scores(tests)}),
             worst_score |-> Min({x[2] : x \in Scores(tests)}),
             recent_scores |-> Recent(tests),
             completion_rate |->
                 IF all_tests_count > 0
                 THEN Round2(Frac(total_tests * 100, all_tests_count))
                 ELSE Whole(0)])

\* (mutant) the topic statistics over the tests of every user
TopicTests_Anyone(store, u, topic_id) ==
    {t \in store.tests : t.topic_id = topic_id /\ t.completed_at # None}

\* Topic joined to Test, filtered to the caller's completed tests
TopicTests(store, u, topic_id) ==
    {t \in store.tests : t.topic_id = topic_id /\ t.user_id = u /\ t.completed_at # None}

\* one row of the result of get_topic_performance; func.avg and func.max skip NULL
TopicRow(store, u, topic) ==
    LET scored == {t \in TopicTests(store, u, topic.id) : t.score # None}
        avg_score == IF scored = {} THEN Whole(0)
                     ELSE Over(Sum(Scores(scored)), Cardinality(scored))
        best_score == IF scored = {} THEN Whole(0) ELSE Max({x[2] : x \in Scores(scored)})
    IN [topic_id |-> topic.id,
        topic_name |-> topic.name,
        tests_taken |-> Cardinality(TopicTests(store, u, topic.id)),
        average_score |-> Round2(avg_score),
        best_score |-> best_score,
        question_count |-> Cardinality({q \in store.questions : q.topic_id = topic.id}),
        perfect_scores |->
            Cardinality({t \in store.tests : /\ t.topic_id = topic.id
                                             /\ t.user_id = u
                                             /\ t.score = Some(Whole(100))})]

\* the rows come in the order of the grouping, which the query leaves open:
\* the body is the set of the rows
get_topic_performance(store, u) ==
    Returned(store, {TopicRow(store, u, topic) :
                        topic \in {t \in store.topics : TopicTests(store, u, t.id) # {}}})

\* the names analytics.py imports from sqlalchemy: from sqlalchemy import func, desc
Imported == {"func", "desc"}

\* the responses of the caller's tests to a question
Attempts(store, u, question) ==
    {r \in store.responses :
        /\ r.question_id = question.id
        /\ \E t \in store.tests : t.id = r.test_id /\ t.user_id = u}

\* one entry of the result of get_question_difficulty_analysis
DifficultyRow(store, u, question) ==
    LET attempts == Cardinality(Attempts(store, u, question))
        correct == Cardinality({r \in Attempts(store, u, question) : r.is_correct})
        success_rate == IF attempts > 0 THEN Frac(correct * 100, attempts) ELSE Whole(0)
    IN [question_id |-> question.id,
        question_text |-> question.question_text,
        rated_difficulty |-> question.difficulty,
        attempts |-> attempts,
        success_rate |-> Round2(success_rate),
        perceived_difficulty |-> 5 - Truncate(Times(Over(success_rate, 100), 4))]

\* the query is built with case(...), a name the module does not define: the
\* handler raises NameError where it builds the query.  The rest is what the
\* handler goes on to do with a query it could build; the entries are sorted by
\* success_rate, entries of one rate in the order of the grouping: the body is
\* the set of the entries
get_question_difficulty_analysis(store, u, topic_id) ==
    IF "case" \notin Imported
    THEN Failed(store)
    ELSE Returned(store,
            {DifficultyRow(store, u, q) :
                q \in {q \in store.questions :
                          /\ Attempts(store, u, q) # {}
                          /\ (TruthyInt(topic_id) => q.topic_id = Get(topic_id))}})

-----------------------------------------------------------------------------
(* SpecAnalytics: tests and their statistics.  One user, one topic and one   *)
(* open-ended question; the user starts tests, answers right or wrong,       *)
(* completes, and reads the three analytics; the clock moves on by eight     *)
(* days once, past the period of a week.                                     *)

\* one request handled, as in Handle, the store holding at most the given
\* numbers of tests and responses
Serve(op, out, tests, responses) ==
    /\ out.db.nextId.tests <= tests + 1
    /\ out.db.nextId.responses <= responses + 1
    /\ db' = out.db
    /\ last' = [op |-> op, status |-> out.status, detail |-> out.detail]
    /\ UNCHANGED <<now, pending>>

\* the clock moves on by eight days, once
Later ==
    /\ now <= Days("week")
    /\ now' = now + Days("week") + 1
    /\ UNCHANGED <<db, last, pending>>

\* the requests that set the scene: the users, the topic and the question
Scene(regs, tests, responses) ==
    \/ \E r \in regs :
           /\ register(r[1], r[2]).status = 201
           /\ Serve("register", register(r[1], r[2]), tests, responses)
    \/ \E u \in Callers :
           /\ db.topics = {}
           /\ Serve("create_topic", create_topic(u, "math", None), tests, responses)
    \/ \E u \in Callers, req \in OpenQuestion :
           /\ db.questions = {}
           /\ Serve("create_question", create_question(u, req), tests, responses)

\* the requests that write tests and responses, those that are rejected left
\* out; the responses go to the test started last
Write(tests, responses) ==
    \/ \E u \in Callers : Serve("start_test", start_test(u, 1), tests, responses)
    \/ \E u \in Callers, t \in 1..tests, req \in RightOrWrong :
           /\ t + 1 = db.nextId.tests
           /\ submit_response(u, t, req).status = 200
           /\ Serve("submit_response", submit_response(u, t, req), tests, responses)
    \/ \E u \in Callers, t \in 1..tests :
           /\ complete_test(u, t).db # db
           /\ Serve("complete_test", complete_test(u, t), tests, responses)

\* the requests that read the analytics
Read(tests, responses) ==
    \/ \E u \in Callers, period \in Periods :
           Serve("get_user_performance", get_user_performance(db, u, period), tests, responses)
    \/ \E u \in Callers :
           Serve("get_topic_performance", get_topic_performance(db, u), tests, responses)
    \/ \E u \in Callers, topic_id \in {None, Some(1)} :
           Serve("get_question_difficulty_analysis",
                 get_question_difficulty_analysis(db, u, topic_id), tests, responses)

NextAnalytics ==
    \/ Later
    \/ Scene(OneUser, MaxStarted, MaxAnswers)
    \/ Write(MaxStarted, MaxAnswers)
    \/ Read(MaxStarted, MaxAnswers)

SpecAnalytics == Init /\ [][NextAnalytics]_vars

-----------------------------------------------------------------------------
(* C12: the question-difficulty analysis reports, for every question the     *)
(* caller has responded to, success_rate = 100 * correct / attempts over the *)
(* caller's responses and perceived_difficulty = 5 - floor((success_rate /   *)
(* 100) * 4), a number in 1..5.                                              *)

\* the caller's responses to a question
Answered(u, q) ==
    {r \in db.responses :
        r.question_id = q.id /\ \E t \in db.tests : t.id = r.test_id /\ t.user_id = u}

C12_DifficultyAnalysis ==
    \A u \in Callers, q \in db.questions : Answered(u, q) # {} =>
        LET out == get_question_difficulty_analysis(db, u, None)
            attempts == Cardinality(Answered(u, q))
            correct == Cardinality(Correct(Answered(u, q)))
        IN /\ out.status = 200
           /\ \E row \in out.body :
                 /\ row.question_id = q.id
                 /\ IsPercentage(row.success_rate, correct, attempts)
                 /\ row.perceived_difficulty = 5 - ((4 * correct) \div attempts)
                 /\ row.perceived_difficulty \in 1..5

-----------------------------------------------------------------------------
(* C13: for a caller with a completed test in the period, the completion     *)
(* rate get_user_performance reports is 100 * (the caller's tests completed  *)
(* in the period) / (all the tests the caller started), within [0, 100].     *)

\* the caller's tests completed in the period, and all the caller's tests
Done(u, period) ==
    {t \in db.tests :
        /\ t.user_id = u
        /\ IsCompleted(t)
        /\ period \in {"week", "month", "year"} =>
               Get(t.completed_at) >= now - Days(period)}
All(u) == {t \in db.tests : t.user_id = u}

\* the fraction s is 100 * k / n rounded to two decimals
IsRounded(s, k, n) ==
    /\ s[2] > 0
    /\ 100 % s[2] = 0
    /\ LET diff == s[1] * n - 100 * k * s[2]
       IN 200 * (IF diff < 0 THEN -diff ELSE diff) <= s[2] * n

\* the completion rate of every caller with a test completed in the period
\* is Exact(rate, completed, started)
CompletionRate(Exact(_, _, _)) ==
    \A u \in Callers, period \in Periods : Done(u, period) # {} =>
        LET out == get_user_performance(db, u, period) IN
        /\ out.status = 200
        /\ Exact(out.body.completion_rate,
                 Cardinality(Done(u, period)), Cardinality(All(u)))
        /\ InRange(out.body.completion_rate)

\* C13 as claimed: the completion rate is 100 * completed / started
C13_AsClaimed == CompletionRate(IsPercentage)

\* C13 as amended: the completion rate is 100 * completed / started rounded to
\* two decimals
C13_CompletionRate == CompletionRate(IsRounded)

\* the user performance was just read by a user who started three tests and
\* completed two, one of them within the last week: the rate of the week is 33.33
C13_Witness ==
    /\ last.op = "get_user_performance"
    /\ \E u \in Callers :
          /\ Cardinality(All(u)) = 3
          /\ Cardinality(Done(u, "all")) = 2
          /\ Cardinality(Done(u, "week")) = 1
          /\ get_user_performance(db, u, "week").body.completion_rate = <<3333, 100>>

-----------------------------------------------------------------------------
(* C14: get_user_performance for a caller with no test completed in the     *)
(* period reports total_tests, average_score, best_score, worst_score and    *)
(* completion_rate as 0 and no recent score, tests in progress or not.       *)

C14_NothingCompleted ==
    \A u \in Callers, period \in Periods : Done(u, period) = {} =>
        LET out == get_user_performance(db, u, period) IN
        /\ out.status = 200
        /\ out.body.total_tests = 0
        /\ out.body.average_score = <<0, 1>>
        /\ out.body.best_score = <<0, 1>>
        /\ out.body.worst_score = <<0, 1>>
        /\ out.body.completion_rate = <<0, 1>>
        /\ out.body.recent_scores = {<<>>}

\* the user performance was just read by a user with a test in progress and a
\* test completed more than a week ago and none since
C14_Witness ==
    /\ last.op = "get_user_performance"
    /\ \E u \in Callers :
          /\ Done(u, "week") = {}
          /\ Done(u, "all") # {}
          /\ \E t \in All(u) : ~IsCompleted(t) /\ ResponsesOf(db, t.id) # {}

-----------------------------------------------------------------------------
(* SpecRivals: the analytics of two users.  Two users, one topic and one     *)
(* open-ended question; both users start tests, answer right or wrong,       *)
(* complete, and read the three analytics.                                   *)

NextRivals ==
    \/ Scene(TwoUsers, MaxRivalTests, MaxRivalAnswers)
    \/ Write(MaxRivalTests, MaxRivalAnswers)
    \/ Read(MaxRivalTests, MaxRivalAnswers)

SpecRivals == Init /\ [][NextRivals]_vars

-----------------------------------------------------------------------------
(* C15: the three analytics of a user are the same before and after every    *)
(* start_test, submit_response and complete_test request of another user, so *)
(* no sequence of such requests changes them.                                *)

\* what the three endpoints answer to user a over a store, with the rows the
\* difficulty query selects for a
Analytics(store, a) ==
    [user |-> [period \in Periods |->
                  LET out == get_user_performance(store, a, period)
                  IN <<out.status, out.body>>],
     topics |-> LET out == get_topic_performance(store, a)
                IN <<out.status, out.body>>,
     questions |-> [topic_id \in {None, Some(1)} |->
                  LET out == get_question_difficulty_analysis(store, a, topic_id)
                  IN <<out.status, out.body>>],
     rows |-> {DifficultyRow(store, a, q) :
                  q \in {q \in store.questions : Attempts(store, a, q) # {}}}]

C15_OwnAnalytics ==
    \A a \in Callers : \A b \in Callers \ {a} :
        LET before == Analytics(db, a)
            Same(out) == out.db = db \/ Analytics(out.db, a) = before
        IN /\ Same(start_test(b, 1))
           /\ \A t \in db.tests, req \in RightOrWrong :
                 Same(submit_response(b, t.id, req))
           /\ \A t \in db.tests : Same(complete_test(b, t.id))

\* a test was just completed, each of the two users now having a completed
\* test with a response, one scored 0 and one scored 100
C15_Witness ==
    /\ last.op = "complete_test"
    /\ \E a, b \in Callers :
          /\ a # b
          /\ \E t \in db.tests : t.user_id = a /\ t.score = Some(<<0, 1>>)
          /\ \E t \in db.tests : t.user_id = b /\ t.score = Some(<<100, 1>>)

-----------------------------------------------------------------------------
(* C16: the score complete_test stores is 100 * correct / responses rounded  *)
(* to two decimals: 66.67 for a test with three responses, two correct.      *)

C16_ScoreIsRounded ==
    \A t \in db.tests : IsCompleted(t) =>
        /\ t.score # None
        /\ IsRounded(Get(t.score), Cardinality(Correct(ResponsesOf(db, t.id))),
                     Cardinality(ResponsesOf(db, t.id)))

-----------------------------------------------------------------------------
(* Concurrent requests.  Each request has its own session (get_db) and the   *)
(* store commits one transaction at a time; no handler locks a row.  A       *)
(* request handled by worker i goes through its queries and its commit in    *)
(* steps, and steps of other requests come in between.  Every query reads    *)
(* what is committed when it runs.                                           *)

\* (mutant) the completion committed only to a test that is still in progress
CommitCompletion_IfActive(store, request) ==
    LET row == First(store.tests, request.test_id)
    IN IF row.completed_at # None THEN store
       ELSE Update(store, "tests", row, Finalized(row, request.score))

\* db.commit() of complete_test: the UPDATE of the two columns of the test's
\* row, whatever the row holds by now
CommitCompletion(store, request) ==
    LET row == First(store.tests, request.test_id)
    IN Update(store, "tests", row, Finalized(row, request.score))

\* complete_test read the test and passed its checks of the owner and of
\* completed_at; a request that fails them is answered at once
BeginComplete(i) ==
    /\ pending[i] = Idle
    /\ \E u \in Callers, t \in TestIds :
          LET out == complete_test(u, t) IN
          IF Exists(db.tests, t) /\ Owns(u, First(db.tests, t))
                                 /\ NotCompleted(First(db.tests, t))
          THEN /\ pending' = [pending EXCEPT ![i] =
                     [op |-> "complete_test", stage |-> "checked", test_id |-> t]]
               /\ UNCHANGED <<db, now, last>>
          ELSE Handle("complete_test", out)

\* complete_test read the responses: none is an error, else the score is computed
ReadResponses(i) ==
    /\ pending[i].op = "complete_test"
    /\ pending[i].stage = "checked"
    /\ LET rs == ResponsesOf(db, pending[i].test_id) IN
       IF NoResponses(rs)
       THEN /\ pending' = [pending EXCEPT ![i] = Idle]
            /\ last' = [op |-> "complete_test", status |-> 400,
                        detail |-> "No responses found for this test"]
            /\ UNCHANGED <<db, now>>
       ELSE /\ pending' = [pending EXCEPT ![i] =
                  [op |-> "complete_test", stage |-> "scored",
                   test_id |-> pending[i].test_id, score |-> Score(rs)]]
            /\ UNCHANGED <<db, now, last>>

\* complete_test assigned completed_at and score and committed
CommitComplete(i) ==
    /\ pending[i].op = "complete_test"
    /\ pending[i].stage = "scored"
    /\ db' = CommitCompletion(db, pending[i])
    /\ pending' = [pending EXCEPT ![i] =
          [op |-> "complete_test", stage |-> "committed",
           test_id |-> pending[i].test_id, score |-> pending[i].score,
           completed_at |-> now]]
    /\ UNCHANGED <<now, last>>

\* complete_test returned the row, and FastAPI answered
Respond(i) ==
    /\ pending[i].op = "complete_test"
    /\ pending[i].stage = "committed"
    /\ LET out == Serialize(First(db.tests, pending[i].test_id), db) IN
       last' = [op |-> "complete_test", status |-> out.status, detail |-> out.detail]
    /\ pending' = [pending EXCEPT ![i] = Idle]
    /\ UNCHANGED <<db, now>>

\* submit_response read the test, the question and the option and graded the
\* response; a request that fails a check is answered at once
BeginSubmit(i) ==
    /\ pending[i] = Idle
    /\ \E u \in Callers, t \in TestIds, req \in RightOrWrong :
          LET out == submit_response(u, t, req) IN
          IF out.status = 200
          THEN /\ pending' = [pending EXCEPT ![i] =
                     [op |-> "submit_response", stage |-> "graded", test_id |-> t,
                      req |-> req,
                      is_correct |-> Grade(First(db.questions, req.question_id), req)]]
               /\ UNCHANGED <<db, now, last>>
          ELSE Handle("submit_response", out)

\* db.add(user_response); db.commit() of submit_response
CommitSubmit(i) ==
    /\ pending[i].op = "submit_response"
    /\ LET request == pending[i]
           store == Insert(db, "responses",
                      [id |-> 0,
                       test_id |-> request.test_id,
                       question_id |-> request.req.question_id,
                       option_id |-> request.req.option_id,
                       response_text |-> request.req.response_text,
                       is_correct |-> request.is_correct])
       IN /\ WithinBounds(store)
          /\ db' = store
          /\ last' = [op |-> "submit_response", status |-> 200, detail |-> ""]
    /\ pending' = [pending EXCEPT ![i] = Idle]
    /\ UNCHANGED now

-----------------------------------------------------------------------------
(* SpecRace: concurrent requests on tests.  One user, one topic and one      *)
(* open-ended question; tests are started, and submit_response and           *)
(* complete_test requests are handled by the workers step by step while the  *)
(* clock ticks.                                                              *)

NextRace ==
    \/ Tick
    \/ Scene(OneUser, MaxTests, MaxResponses)
    \/ StartTest({1})
    \/ \E i \in TwoRequests : BeginSubmit(i)
    \/ \E i \in TwoRequests : CommitSubmit(i)
    \/ \E i \in TwoRequests : BeginComplete(i)
    \/ \E i \in TwoRequests : ReadResponses(i)
    \/ \E i \in TwoRequests : CommitComplete(i)
    \/ \E i \in TwoRequests : Respond(i)

SpecRace == Init /\ [][NextRace]_vars

-----------------------------------------------------------------------------
(* C17: two complete_test requests for one test in progress that both read   *)
(* the test before either commits both pass the check of completed_at and    *)
(* both commit: a request that passed the check is never refused as already  *)
(* completed, and its commit writes its own completed_at and score over      *)
(* whatever the row holds.                                                   *)

\* worker i commits a completion in this step
Commits(i) ==
    /\ pending[i].op = "complete_test" /\ pending[i].stage = "scored"
    /\ pending'[i].op = "complete_test" /\ pending'[i].stage = "committed"

C17_Writes ==
    \A i \in TwoRequests : Commits(i) =>
        LET row == First(db'.tests, pending[i].test_id) IN
        /\ row.completed_at = Some(now)
        /\ row.score = Some(pending[i].score)

C17_NotRefused ==
    \A i \in TwoRequests :
        (pending[i].op = "complete_test" /\ pending'[i] = Idle) =>
            \/ pending[i].stage = "committed"
            \/ pending[i].stage = "checked" /\ last'.detail = "No responses found for this test"

C17_CompletedTwice == [][C17_Writes /\ C17_NotRefused]_vars

\* two requests have committed the completion of one test, one after the
\* other, and the row holds what the later one wrote
C17_Witness ==
    \E i, j \in TwoRequests :
        /\ pending[i].op = "complete_test" /\ pending[i].stage = "committed"
        /\ pending[j].op = "complete_test" /\ pending[j].stage = "committed"
        /\ pending[i].test_id = pending[j].test_id
        /\ pending[i].completed_at < pending[j].completed_at
        /\ First(db.tests, pending[j].test_id).completed_at = Some(pending[j].completed_at)

-----------------------------------------------------------------------------
(* C18: in every reachable state, concurrent submit_response and             *)
(* complete_test requests included, the score of a completed test is 100 *   *)
(* (its stored responses that are correct) / (its stored responses).         *)

C18_ScoreMatchesResponses ==
    \A t \in db.tests : IsCompleted(t) =>
        /\ t.score # None
        /\ IsPercentage(Get(t.score), Cardinality(Correct(ResponsesOf(db, t.id))),
                        Cardinality(ResponsesOf(db, t.id)))

-----------------------------------------------------------------------------
(* C19: deleting a question deletes its options with it: every stored option *)
(* references a stored question, and delete_question of a stored question    *)
(* that has options is answered 204 and leaves neither the question nor any  *)
(* of its options.                                                           *)

OptionsOf(store, question_id) == {o \in store.options : o.question_id = question_id}

C19_OptionsDeletedWithQuestion ==
    /\ \A o \in db.options : Exists(db.questions, o.question_id)
    /\ \A u \in Callers :
          \A q \in db.questions :
              LET out == delete_question(u, q.id)
              IN  OptionsOf(db, q.id) # {} =>
                      /\ out.status = 204
                      /\ ~Exists(out.db.questions, q.id)
                      /\ OptionsOf(out.db, q.id) = {}

-----------------------------------------------------------------------------
(* C20: a test's score is set exactly when its completed_at is set:          *)
(* start_test creates the test with both unset, and the only step that       *)
(* changes the row of a test is the commit of complete_test, which leaves    *)
(* both set.                                                                 *)

C20_Both ==
    /\ \A t \in db.tests : t.score # None <=> t.completed_at # None
    /\ \A u \in Callers :
          \A t \in start_test(u, 1).db.tests \ db.tests :
              t.completed_at = None /\ t.score = None

C20_OnlyCompletion ==
    \A t \in db.tests : t \notin db'.tests =>
        /\ \E i \in TwoRequests : Commits(i) /\ pending[i].test_id = t.id
        /\ \E t2 \in db'.tests :
              t2.id = t.id /\ t2.completed_at # None /\ t2.score # None

C20_ScoreIffCompleted == []C20_Both /\ [][C20_OnlyCompletion]_vars

\* the completion of a test was just answered, the test holding a score and a
\* completion time, while a new test would start with neither
C20_Witness ==
    /\ last.op = "complete_test"
    /\ last.status = 500
    /\ \A i \in TwoRequests : pending[i] = Idle
    /\ \E t \in db.tests : t.completed_at = Some(2) /\ t.score = Some(<<50, 1>>)

====
